---- MODULE Spec2Model ----
(***************************************************************************)
(* Model of the uberz ubershader archive of filament:                      *)
(*   - ArchiveCache (libs/uberz/src/ArchiveCache.cpp and the class         *)
(*     declaration in libs/gltfio/src/UbershaderArchive.h): load,          *)
(*     getMaterial, getDefaultMaterial, destroyMaterials, ~ArchiveCache;   *)
(*   - WritableArchive (libs/uberz/src/WritableArchive.cpp): addMaterial,  *)
(*     addSpecLine, serialize.                                             *)
(*                                                                         *)
(* Conventions.  C++ arrays are 0-based, TLA+ sequences 1-based: spec      *)
(* index i of the code is position i+1 here, and the value 0 stands for    *)
(* "no index".  A Material* is a natural number: 0 is nullptr and h > 0 is *)
(* the h-th material the engine built (built[h]).  A C string is a         *)
(* sequence of one-character strings; reading past its end yields NUL.     *)
(* assert_invariant is modelled as evaluated (a debug build): a failed     *)
(* assertion ends the run in pc = "aborted".  An access the C++ standard   *)
(* leaves undefined ends the run in pc = "undefined" with an arbitrary     *)
(* returned value.                                                         *)
(***************************************************************************)
EXTENDS Integers, Sequences, FiniteSets, TLC

VARIABLES
    mArchive,     \* ArchiveCache::mArchive: <<>> is nullptr, <<a>> a loaded archive
    mMaterials,   \* ArchiveCache::mMaterials: one Material* per slot
    pc,           \* "alive" | "destructed" | "aborted" | "undefined"
    built,        \* engine: built[h] = what Material::Builder::build was given for h
    destroyed,    \* engine: the arguments of Engine::destroy, in call order
    freed,        \* TRUE once ~ArchiveCache has run free(mArchive)
    last,         \* the last call on the cache and what it returned
    ndebug,       \* TRUE in a build with NDEBUG, where assert_invariant is empty
    wMaterials,   \* WritableArchive::mMaterials: the variants, one per declared slot
    mMaterialIndex, \* WritableArchive::mMaterialIndex, the code's 0-based index
    mLineNumber,  \* WritableArchive::mLineNumber
    wpc,          \* "none" | "building" | "exited" | "serialized" | "aborted" | "undefined"
    syntaxError,  \* <<>> or <<e>>: what emitSyntaxError logged before exit(1)
    outputBuffer, \* <<>> or <<b>>: the buffer serialize returned
    linesFed,     \* history: the calls of addSpecLine since the last addMaterial
    threads,      \* threads[t]: where caller thread t stands inside getMaterial
    mutex,        \* TRUE when the callers call getMaterial under one mutex
    replaced      \* history: what the last change of the current variant's flag
                  \* map replaced: "" (no change yet), "ABSENT" or a support

cacheVars == <<mArchive, mMaterials, pc, built, destroyed, freed, last>>

writerVars ==
    <<wMaterials, mMaterialIndex, mLineNumber, wpc, syntaxError, outputBuffer,
      linesFed, replaced>>

threadVars == <<threads, mutex>>

vars ==
    <<mArchive, mMaterials, pc, built, destroyed, freed, last, ndebug,
      wMaterials, mMaterialIndex, mLineNumber, wpc, syntaxError, outputBuffer,
      linesFed, replaced, threads, mutex>>

----------------------------------------------------------------------------
(* Bounds of the model *)

\* most specs in an archive handed to load
MaxSpecs == 2
\* most flags in one spec of the matcher's inputs
MaxFlags == 1
\* most variants a WritableArchive is declared with
MaxMaterials == 2
\* most spec lines fed to one variant
MaxLines == 3
\* most caller threads inside getMaterial at once
MaxThreads == 2

----------------------------------------------------------------------------
(* Values *)

NUL == ""

UNSUPPORTED == "UNSUPPORTED"
OPTIONAL == "OPTIONAL"
REQUIRED == "REQUIRED"
ArchiveFeature == {UNSUPPORTED, OPTIONAL, REQUIRED}

ShadingModels == {"LIT", "UNLIT"}
BlendingModes == {"OPAQUE", "TRANSPARENT"}

\* 'UBER' as a multi-character constant, and the format version
MAGIC == 1430406482
VERSION == 0

\* feature names of the inputs; "a" is a proper prefix of "ab"
FeatureNames == {<<"a">>, <<"a", "b">>}

----------------------------------------------------------------------------
(* strIsEqual: strncmp(a.c_str(), b, a.size()) == 0 *)

CharAt(s, i) == IF i <= Len(s) THEN s[i] ELSE NUL

RECURSIVE strncmpIsZero(_, _, _, _)
strncmpIsZero(a, b, i, n) ==
    IF i > n THEN TRUE
    ELSE IF CharAt(a, i) # CharAt(b, i) THEN FALSE
    ELSE IF CharAt(a, i) = NUL THEN TRUE
    ELSE strncmpIsZero(a, b, i + 1, n)

strIsEqual(a, b) == strncmpIsZero(a, b, 1, Len(a))

----------------------------------------------------------------------------
(* The matcher inside ArchiveCache::getMaterial *)

\* the inner loop over spec.flags for one mesh requirement: the first flag
\* that strIsEqual accepts decides, and ends the loop
RECURSIVE FlagFound(_, _, _)
FlagFound(flags, j, meshRequirement) ==
    IF j > Len(flags) THEN FALSE
    ELSE IF strIsEqual(meshRequirement, flags[j].name)
         THEN flags[j].value # UNSUPPORTED
         ELSE FlagFound(flags, j + 1, meshRequirement)

\* first pass: every feature the mesh needs is found in the spec
MeshFeaturesFound(spec, meshRequirements) ==
    \A name \in DOMAIN meshRequirements.features :
        meshRequirements.features[name] => FlagFound(spec.flags, 1, name)

RequiredFlagsOmitAbsent(spec, meshRequirements) ==
    \A j \in 1..Len(spec.flags) :
        (spec.flags[j].value = REQUIRED
         /\ spec.flags[j].name \in DOMAIN meshRequirements.features)
            => meshRequirements.features[spec.flags[j].name]

\* second pass: every REQUIRED flag of the spec is a true feature of the mesh
RequiredFlagsPresent(spec, meshRequirements) ==
    \A j \in 1..Len(spec.flags) :
        spec.flags[j].value = REQUIRED
            => /\ spec.flags[j].name \in DOMAIN meshRequirements.features
               /\ meshRequirements.features[spec.flags[j].name]

specIsSuitable(spec, meshRequirements) ==
    /\ spec.blendingMode = meshRequirements.blendingMode
    /\ spec.shadingModel = meshRequirements.shadingModel
    /\ MeshFeaturesFound(spec, meshRequirements)
    /\ RequiredFlagsPresent(spec, meshRequirements)

RECURSIVE LastSuitable(_, _, _)
LastSuitable(specs, i, meshRequirements) ==
    IF i > Len(specs) THEN 0
    ELSE IF LastSuitable(specs, i + 1, meshRequirements) # 0
         THEN LastSuitable(specs, i + 1, meshRequirements)
         ELSE IF specIsSuitable(specs[i], meshRequirements) THEN i ELSE 0

\* the outer loop: the position of the first suitable spec from i on, or 0
RECURSIVE FirstSuitable(_, _, _)
FirstSuitable(specs, i, meshRequirements) ==
    IF i > Len(specs) THEN 0
    ELSE IF specIsSuitable(specs[i], meshRequirements) THEN i
         ELSE FirstSuitable(specs, i + 1, meshRequirements)

----------------------------------------------------------------------------
(* Inputs *)

ArchiveFlag == [name : FeatureNames, value : ArchiveFeature]

\* flag lists of at most n flags with pairwise different names
FlagLists(n) ==
    {fl \in UNION {[1..k -> ArchiveFlag] : k \in 0..n} :
        \A i, j \in 1..Len(fl) : fl[i].name = fl[j].name => i = j}

\* what a caller may ask for
Requirements ==
    {[shadingModel |-> s, blendingMode |-> b, features |-> f] :
        s \in ShadingModels, b \in BlendingModes,
        f \in UNION {[D -> BOOLEAN] : D \in SUBSET FeatureNames}}

\* the requirement recorded for calls that take none
NoRequirements == [shadingModel |-> "", blendingMode |-> "", features |-> <<>>]

\* the caller threads, and a thread that is not inside getMaterial
Threads == 1..MaxThreads

Idle == [at |-> "idle", req |-> NoRequirements, index |-> 0, material |-> 0]

\* the package bytes of the spec at position i of an input archive
PackageOf(i) == <<i>>

\* a loaded archive as convertOffsetsToPointers leaves it: the header words,
\* the specs with their flags and package as the offsets resolved them, and
\* whether every offset resolved to a range inside the buffer
ReadableArchive(magic, version, specs, offsetsInside) ==
    [magic |-> magic, version |-> version,
     specs |-> [i \in 1..Len(specs) |->
                   [shadingModel |-> specs[i].shadingModel,
                    blendingMode |-> specs[i].blendingMode,
                    flags |-> specs[i].flags,
                    package |-> PackageOf(i)]],
     offsetsInside |-> offsetsInside]

SpecHeads(flagLists) ==
    [shadingModel : ShadingModels, blendingMode : BlendingModes, flags : flagLists]

\* the specs of the archives the cache's life cycle is run on
LifeFlagLists ==
    {<<>>,
     <<[name |-> <<"a">>, value |-> OPTIONAL]>>,
     <<[name |-> <<"a">>, value |-> REQUIRED]>>}

LifeSpecHeads ==
    [shadingModel : ShadingModels, blendingMode : {"OPAQUE"}, flags : LifeFlagLists]

\* well-formed archive buffers of at most MaxSpecs specs
GoodArchives ==
    {ReadableArchive(MAGIC, VERSION, specs, TRUE) :
        specs \in UNION {[1..k -> LifeSpecHeads] : k \in 0..MaxSpecs}}

\* a wrong magic, a wrong version, an offset that points outside the buffer
OneLitSpec ==
    <<[shadingModel |-> "LIT", blendingMode |-> "OPAQUE", flags |-> <<>>]>>

BadArchives ==
    {ReadableArchive(MAGIC + 1, VERSION, OneLitSpec, TRUE),
     ReadableArchive(MAGIC, VERSION + 1, OneLitSpec, TRUE),
     ReadableArchive(MAGIC, VERSION, OneLitSpec, FALSE)}

ArchiveFiles == GoodArchives \cup BadArchives

\* the archives and requirements of the threaded lookups: k specs without
\* flags whose shading models alternate
ThreadSpecHeads(k) ==
    [i \in 1..k |-> [shadingModel |-> IF i % 2 = 1 THEN "LIT" ELSE "UNLIT",
                     blendingMode |-> "OPAQUE", flags |-> <<>>]]

ThreadArchives ==
    {ReadableArchive(MAGIC, VERSION, ThreadSpecHeads(k), TRUE) : k \in 1..MaxSpecs}

ThreadRequirements ==
    {r \in Requirements : r.blendingMode = "OPAQUE" /\ DOMAIN r.features = {}}

\* one-spec archives over every flag list, the matcher's inputs
MatcherArchives ==
    {ReadableArchive(MAGIC, VERSION, <<s>>, TRUE) : s \in SpecHeads(FlagLists(MaxFlags))}

----------------------------------------------------------------------------
(* ArchiveCache *)

Call(op, req, index, ret) == [op |-> op, req |-> req, index |-> index, ret |-> ret]

\* an access with undefined behaviour: the run ends, the value returned is arbitrary
Undefined(op, req, index) ==
    /\ pc' = "undefined"
    /\ \E ret \in 0..Len(built) : last' = Call(op, req, index, ret)
    /\ UNCHANGED <<mArchive, mMaterials, built, destroyed, freed>>

\* a failed assert_invariant of the cache, in a build that evaluates it
Aborted(op) ==
    /\ pc' = "aborted"
    /\ last' = Call(op, NoRequirements, 0, 0)
    /\ UNCHANGED <<mArchive, mMaterials, built, destroyed, freed>>

\* FixedCapacityVector<Material*>(specsCount): one empty slot per spec
EmptySlots(specsCount) == [i \in 1..specsCount |-> 0]

LoadOverLoaded(archive) == TRUE

\* assert_invariant(mArchive == nullptr);
LoadAssertion(archive) == archive = <<>>

\* void ArchiveCache::load(void* archiveData, uint64_t archiveByteCount)
Load(archiveData) ==
    /\ pc = "alive"
    /\ UNCHANGED <<ndebug, writerVars, threadVars>>
    /\ IF ~LoadAssertion(mArchive) /\ ~ndebug
       THEN Aborted("load")
       ELSE /\ mArchive' = <<archiveData>>
            /\ mMaterials' = EmptySlots(Len(archiveData.specs))
            /\ last' = Call("load", NoRequirements, 0, 0)
            /\ UNCHANGED <<pc, built, destroyed, freed>>

AlwaysBuild(material) == TRUE

\* if (mMaterials[i] == nullptr)
NeedsBuild(material) == material = 0

StoreInEverySlot(materials, i, material) == [j \in 1..Len(materials) |-> material]

\* mMaterials[i] = Material::Builder().package(...).build(mEngine);
StoreMaterial(materials, i, material) == [materials EXCEPT ![i] = material]

\* Material* ArchiveCache::getMaterial(const ArchiveRequirements& meshRequirements)
GetMaterial(meshRequirements) ==
    /\ pc = "alive"
    /\ UNCHANGED <<ndebug, writerVars, threadVars>>
    /\ IF mArchive = <<>>
       THEN Undefined("getMaterial", meshRequirements, 0)
       ELSE IF ~mArchive[1].offsetsInside
       THEN Undefined("getMaterial", meshRequirements, 0)
       ELSE LET specs == mArchive[1].specs
                i == FirstSuitable(specs, 1, meshRequirements)
            IN  IF i = 0
                THEN /\ last' = Call("getMaterial", meshRequirements, 0, 0)
                     /\ UNCHANGED <<mArchive, mMaterials, pc, built, destroyed, freed>>
                ELSE IF i > Len(mMaterials)
                THEN Undefined("getMaterial", meshRequirements, i)
                ELSE IF NeedsBuild(mMaterials[i])
                THEN /\ built' = Append(built, [index |-> i, package |-> specs[i].package])
                     /\ mMaterials' = StoreMaterial(mMaterials, i, Len(built) + 1)
                     /\ last' = Call("getMaterial", meshRequirements, i, Len(built) + 1)
                     /\ UNCHANGED <<mArchive, pc, destroyed, freed>>
                ELSE /\ last' = Call("getMaterial", meshRequirements, i, mMaterials[i])
                     /\ UNCHANGED <<mArchive, mMaterials, pc, built, destroyed, freed>>

\* filament::Material* getDefaultMaterial() { return mMaterials[0]; }
GetDefaultMaterial ==
    /\ pc = "alive"
    /\ UNCHANGED <<ndebug, writerVars, threadVars>>
    /\ IF Len(mMaterials) = 0
       THEN Undefined("getDefaultMaterial", NoRequirements, 1)
       ELSE /\ last' = Call("getDefaultMaterial", NoRequirements, 1, mMaterials[1])
            /\ UNCHANGED <<mArchive, mMaterials, pc, built, destroyed, freed>>

DestroyAllButFirst(materials) ==
    IF Len(materials) = 0 THEN <<>> ELSE Tail(materials)

\* for (auto mat : mMaterials) mEngine.destroy(mat);
DestroyEach(materials) == materials

\* void ArchiveCache::destroyMaterials()
DestroyMaterials ==
    /\ pc = "alive"
    /\ UNCHANGED <<ndebug, writerVars, threadVars>>
    /\ destroyed' = destroyed \o DestroyEach(mMaterials)
    /\ mMaterials' = <<>>
    /\ last' = Call("destroyMaterials", NoRequirements, 0, 0)
    /\ UNCHANGED <<mArchive, pc, built, freed>>

AssertNothing(materials) == TRUE

\* assert_invariant(mMaterials.size() == 0 && "Please call destroyMaterials ...")
DestructorAssertion(materials) == Len(materials) = 0

\* ArchiveCache::~ArchiveCache()
Destructor ==
    /\ pc = "alive"
    /\ UNCHANGED <<ndebug, writerVars, threadVars>>
    /\ IF ~DestructorAssertion(mMaterials) /\ ~ndebug
       THEN Aborted("~ArchiveCache")
       ELSE /\ freed' = TRUE
            /\ pc' = "destructed"
            /\ last' = Call("~ArchiveCache", NoRequirements, 0, 0)
            /\ UNCHANGED <<mArchive, mMaterials, built, destroyed>>

----------------------------------------------------------------------------
(* ArchiveCache::getMaterial called from several threads.  The body has no  *)
(* lock; it is cut where it touches mMaterials: the test of the slot, the   *)
(* build, the store into the slot, the read of the slot for the return.     *)

\* thread t enters getMaterial: the loop over the specs, which only reads the
\* archive, and for the first suitable spec the test if (mMaterials[i] == nullptr).
\* Under the callers' mutex a thread enters only when no other is inside.
EnterGetMaterial(t, meshRequirements) ==
    /\ pc = "alive"
    /\ threads[t].at = "idle"
    /\ mutex => \A o \in Threads : threads[o].at = "idle"
    /\ UNCHANGED <<ndebug, writerVars, mutex>>
    /\ IF mArchive = <<>>
       THEN Undefined("getMaterial", meshRequirements, 0) /\ UNCHANGED threads
       ELSE IF ~mArchive[1].offsetsInside
       THEN Undefined("getMaterial", meshRequirements, 0) /\ UNCHANGED threads
       ELSE LET i == FirstSuitable(mArchive[1].specs, 1, meshRequirements)
            IN  IF i = 0
                THEN /\ last' = Call("getMaterial", meshRequirements, 0, 0)
                     /\ UNCHANGED <<mArchive, mMaterials, pc, built, destroyed, freed, threads>>
                ELSE IF i > Len(mMaterials)
                THEN Undefined("getMaterial", meshRequirements, i) /\ UNCHANGED threads
                ELSE /\ threads' = [threads EXCEPT ![t] =
                            [at |-> IF NeedsBuild(mMaterials[i]) THEN "build" ELSE "return",
                             req |-> meshRequirements, index |-> i, material |-> 0]]
                     /\ UNCHANGED cacheVars

\* Material::Builder().package(spec.package, spec.packageByteCount).build(mEngine)
BuildMaterial(t) ==
    /\ pc = "alive"
    /\ threads[t].at = "build"
    /\ built' = Append(built, [index |-> threads[t].index,
                               package |-> mArchive[1].specs[threads[t].index].package])
    /\ threads' = [threads EXCEPT ![t].at = "store", ![t].material = Len(built) + 1]
    /\ UNCHANGED <<mArchive, mMaterials, pc, destroyed, freed, last, ndebug, writerVars, mutex>>

\* mMaterials[i] = the material just built
StoreBuiltMaterial(t) ==
    /\ pc = "alive"
    /\ threads[t].at = "store"
    /\ mMaterials' = StoreMaterial(mMaterials, threads[t].index, threads[t].material)
    /\ threads' = [threads EXCEPT ![t].at = "return"]
    /\ UNCHANGED <<mArchive, pc, built, destroyed, freed, last, ndebug, writerVars, mutex>>

\* return mMaterials[i];
ReturnMaterial(t) ==
    /\ pc = "alive"
    /\ threads[t].at = "return"
    /\ last' = Call("getMaterial", threads[t].req, threads[t].index,
                    mMaterials[threads[t].index])
    /\ threads' = [threads EXCEPT ![t] = Idle]
    /\ UNCHANGED <<mArchive, mMaterials, pc, built, destroyed, freed, ndebug, writerVars, mutex>>

\* destroyMaterials once every thread is out of getMaterial
DestroyMaterialsAfterLookups ==
    /\ \A t \in Threads : threads[t].at = "idle"
    /\ DestroyMaterials

----------------------------------------------------------------------------
(* WritableArchive: the spec-line parser *)

KeywordBlendingMode == <<"B", "l", "e", "n", "d", "i", "n", "g", "M", "o", "d", "e">>

KeywordShadingModel == <<"S", "h", "a", "d", "i", "n", "g", "M", "o", "d", "e", "l">>

\* readArchiveFeature tries these in this order
ArchiveFeatureKeywords ==
    <<[txt |-> <<"u", "n", "s", "u", "p", "p", "o", "r", "t", "e", "d">>, value |-> "UNSUPPORTED"],
      [txt |-> <<"r", "e", "q", "u", "i", "r", "e", "d">>, value |-> "REQUIRED"],
      [txt |-> <<"o", "p", "t", "i", "o", "n", "a", "l">>, value |-> "OPTIONAL"]>>

\* readBlendingMode tries these in this order
BlendingModeKeywords ==
    <<[txt |-> <<"o", "p", "a", "q", "u", "e">>, value |-> "OPAQUE"],
      [txt |-> <<"t", "r", "a", "n", "s", "p", "a", "r", "e", "n", "t">>, value |-> "TRANSPARENT"],
      [txt |-> <<"a", "d", "d">>, value |-> "ADD"],
      [txt |-> <<"m", "a", "s", "k", "e", "d">>, value |-> "MASKED"],
      [txt |-> <<"f", "a", "d", "e">>, value |-> "FADE"],
      [txt |-> <<"m", "u", "l", "t", "i", "p", "l", "y">>, value |-> "MULTIPLY"],
      [txt |-> <<"s", "c", "r", "e", "e", "n">>, value |-> "SCREEN"]>>

\* readShadingModel tries these in this order
ShadingModelKeywords ==
    <<[txt |-> <<"u", "n", "l", "i", "t">>, value |-> "UNLIT"],
      [txt |-> <<"l", "i", "t">>, value |-> "LIT"],
      [txt |-> <<"s", "u", "b", "s", "u", "r", "f", "a", "c", "e">>, value |-> "SUBSURFACE"],
      [txt |-> <<"c", "l", "o", "t", "h">>, value |-> "CLOTH"],
      [txt |-> <<"s", "p", "e", "c", "u", "l", "a", "r", "G", "l", "o", "s", "s", "i", "n", "e", "s", "s">>, value |-> "SPECULAR_GLOSSINESS"]>>

\* isAlphaNumeric
AlphaNumerics ==
    {"0", "1", "2", "3", "4", "5", "6", "7", "8", "9", "_", "a", "b", "c",
     "d", "e", "f", "g", "h", "i", "j", "k", "l", "m", "n", "o", "p", "q",
     "r", "s", "t", "u", "v", "w", "x", "y", "z", "A", "B", "C", "D", "E",
     "F", "G", "H", "I", "J", "K", "L", "M", "N", "O", "P", "Q", "R", "S",
     "T", "U", "V", "W", "X", "Y", "Z"}

\* isWhitespace
Whitespaces == {" ", "\t"}

\* Keyword::test: strncmp(cursor, txt, len) == 0, the cursor at position c
KeywordTest(txt, line, c) == \A k \in 1..Len(txt) : CharAt(line, c + k - 1) = txt[k]

\* readIdentifier, readWhitespace: how many characters from position c on are in set
RECURSIVE ReadWhile(_, _, _)
ReadWhile(set, line, c) ==
    IF CharAt(line, c) \in set THEN 1 + ReadWhile(set, line, c + 1) ELSE 0

readIdentifier(line, c) == ReadWhile(AlphaNumerics, line, c)

readWhitespace(line, c) == ReadWhile(Whitespaces, line, c)

\* readArchiveFeature, readBlendingMode, readShadingModel: the first keyword
\* of the table found at position c, with its length, or length 0
RECURSIVE ReadKeyword(_, _, _, _)
ReadKeyword(keywords, k, line, c) ==
    IF k > Len(keywords) THEN [length |-> 0, value |-> ""]
    ELSE IF KeywordTest(keywords[k].txt, line, c)
         THEN [length |-> Len(keywords[k].txt), value |-> keywords[k].value]
         ELSE ReadKeyword(keywords, k + 1, line, c)

NoError == ""

\* what a parse step leaves: the message of emitSyntaxError or NoError, the
\* cursor as a 1-based position in the line (emitSyntaxError's column is
\* 1 + cursor - line, this very position), and the material
Parsed(msg, cursor, material) == [msg |-> msg, cursor |-> cursor, material |-> material]

KeepFirstFlag(flags, id, value) ==
    [n \in DOMAIN flags \cup {id} |-> IF n \in DOMAIN flags THEN flags[n] ELSE value]

\* m.flags[id] = value on the robin_map
SetFlag(flags, id, value) ==
    [n \in DOMAIN flags \cup {id} |-> IF n = id THEN value ELSE flags[n]]

\* the lambda parseFeatureFlag, the cursor at position c
parseFeatureFlag(line, c, material) ==
    LET length == readIdentifier(line, c)
        id == SubSeq(line, c, c + length - 1)
        eq == c + length + readWhitespace(line, c + length)
        val == eq + 1 + readWhitespace(line, eq + 1)
        feature == ReadKeyword(ArchiveFeatureKeywords, 1, line, val)
    IN  IF length = 0 THEN Parsed("expected identifier", c, material)
        ELSE IF CharAt(line, eq) # "=" THEN Parsed("expected equal sign", eq + 1, material)
        ELSE IF feature.length = 0
             THEN Parsed("expected unsupported / optional / required", val, material)
        ELSE Parsed(NoError, val + feature.length,
                    [material EXCEPT !.flags = SetFlag(material.flags, id, feature.value)])

\* the lambda parseBlendingMode, the cursor just after the keyword
parseBlendingMode(line, c, material) ==
    LET eq == c + readWhitespace(line, c)
        val == eq + 1 + readWhitespace(line, eq + 1)
        blending == ReadKeyword(BlendingModeKeywords, 1, line, val)
    IN  IF CharAt(line, eq) # "=" THEN Parsed("expected equal sign", eq + 1, material)
        ELSE IF blending.length = 0
             THEN Parsed("expected lowercase blending mode enum", val, material)
        ELSE Parsed(NoError, val + blending.length,
                    [material EXCEPT !.blendingMode = blending.value])

\* the lambda parseShadingModel, the cursor just after the keyword
parseShadingModel(line, c, material) ==
    LET eq == c + readWhitespace(line, c)
        val == eq + 1 + readWhitespace(line, eq + 1)
        shading == ReadKeyword(ShadingModelKeywords, 1, line, val)
    IN  IF CharAt(line, eq) # "=" THEN Parsed("expected equal sign", eq + 1, material)
        ELSE IF shading.length = 0
             THEN Parsed("expected lowercase shading enum", val, material)
        ELSE Parsed(NoError, val + shading.length,
                    [material EXCEPT !.shadingModel = shading.value])

\* the body of addSpecLine from the first test of the line to the last
ParseSpecLine(line, material) ==
    IF CharAt(line, 1) = NUL \/ CharAt(line, 1) = "#"
    THEN Parsed(NoError, 1, material)
    ELSE LET stmt ==
                 IF KeywordTest(KeywordBlendingMode, line, 1)
                 THEN parseBlendingMode(line, 1 + Len(KeywordBlendingMode), material)
                 ELSE IF KeywordTest(KeywordShadingModel, line, 1)
                 THEN parseShadingModel(line, 1 + Len(KeywordShadingModel), material)
                 ELSE parseFeatureFlag(line, 1, material)
         IN  IF stmt.msg # NoError THEN stmt
             ELSE IF CharAt(line, stmt.cursor) # NUL
                  THEN Parsed("unexpected trailing character", stmt.cursor, material)
                  ELSE stmt

----------------------------------------------------------------------------
(* WritableArchive: the builder *)

\* the lines fed to addSpecLine
SpecLines ==
    {<<>>,
     <<"#", "x">>,
     <<"a", "=", "o", "p", "t", "i", "o", "n", "a", "l">>,
     <<"a", " ", "=", " ", "r", "e", "q", "u", "i", "r", "e", "d">>,
     <<"a", "b", "=", "u", "n", "s", "u", "p", "p", "o", "r", "t", "e", "d">>,
     <<"B", "l", "e", "n", "d", "i", "n", "g", "M", "o", "d", "e", "=", "t", "r", "a", "n", "s", "p", "a", "r", "e", "n", "t">>,
     <<"S", "h", "a", "d", "i", "n", "g", "M", "o", "d", "e", "l", "=", "l", "i", "t">>,
     <<"F", "o", "o", "=">>,
     <<"a">>,
     <<"=", "o", "p", "t", "i", "o", "n", "a", "l">>,
     <<"a", "=", "o", "p", "t", "i", "o", "n", "a", "l", "x">>,
     <<"B", "l", "e", "n", "d", "i", "n", "g", "M", "o", "d", "e", "X", "=", "o", "p", "t", "i", "o", "n", "a", "l">>}

\* the names and packages given to addMaterial
MaterialNames == {<<"m">>}

Packages == {<<>>, <<7>>}

\* a Material none of whose members was given a value: empty name, package
\* and flags, and the enumerators of value 0
EmptyMaterial ==
    [name |-> <<>>, package |-> <<>>, flags |-> <<>>,
     shadingModel |-> "UNLIT", blendingMode |-> "OPAQUE"]

WriterUndefined ==
    /\ wpc' = "undefined"
    /\ UNCHANGED <<wMaterials, mMaterialIndex, mLineNumber, syntaxError, outputBuffer,
                   linesFed, replaced>>

WriterAborted ==
    /\ wpc' = "aborted"
    /\ UNCHANGED <<wMaterials, mMaterialIndex, mLineNumber, syntaxError, outputBuffer,
                   linesFed, replaced>>

LineNumberCarriedOver(lineNumber) == lineNumber

\* mLineNumber = 1;
LineNumberOfNewMaterial(lineNumber) == 1

\* void WritableArchive::addMaterial(const char* name, const uint8_t* package, size_t packageSize)
AddMaterial(name, package) ==
    /\ wpc = "building"
    /\ UNCHANGED <<ndebug, cacheVars, threadVars>>
    /\ IF mMaterialIndex + 1 >= Len(wMaterials)
       THEN WriterUndefined
       ELSE /\ mMaterialIndex' = mMaterialIndex + 1
            /\ wMaterials' = [wMaterials EXCEPT ![mMaterialIndex + 2] =
                                 [EmptyMaterial EXCEPT !.name = name, !.package = package]]
            /\ mLineNumber' = LineNumberOfNewMaterial(mLineNumber)
            /\ linesFed' = 0
            /\ replaced' = ""
            /\ UNCHANGED <<wpc, syntaxError, outputBuffer>>

\* history of the flag map: what a change from flags to flagsAfter replaced
Replaced(flags, flagsAfter, unchanged) ==
    IF flagsAfter = flags THEN unchanged
    ELSE IF DOMAIN flagsAfter # DOMAIN flags THEN "ABSENT"
    ELSE flags[CHOOSE n \in DOMAIN flags : flagsAfter[n] # flags[n]]

\* void WritableArchive::addSpecLine(const char* line)
AddSpecLine(line) ==
    /\ wpc = "building"
    /\ mLineNumber <= MaxLines
    /\ UNCHANGED <<ndebug, cacheVars, threadVars>>
    /\ IF ~(mMaterialIndex > -1)
       THEN IF ndebug THEN WriterUndefined ELSE WriterAborted
       ELSE LET material == wMaterials[mMaterialIndex + 1]
                parsed == ParseSpecLine(line, material)
            IN  IF parsed.msg # NoError
                THEN /\ wpc' = "exited"
                     /\ syntaxError' = <<[name |-> material.name, line |-> mLineNumber,
                                          column |-> parsed.cursor, msg |-> parsed.msg]>>
                     /\ linesFed' = linesFed + 1
                     /\ UNCHANGED <<wMaterials, mMaterialIndex, mLineNumber, outputBuffer,
                                    replaced>>
                ELSE /\ wMaterials' = [wMaterials EXCEPT ![mMaterialIndex + 1] = parsed.material]
                     /\ mLineNumber' = mLineNumber + 1
                     /\ linesFed' = linesFed + 1
                     /\ replaced' = Replaced(material.flags, parsed.material.flags, replaced)
                     /\ UNCHANGED <<mMaterialIndex, wpc, syntaxError, outputBuffer>>

----------------------------------------------------------------------------
(* WritableArchive::serialize *)

\* sizeof(ReadableArchive), sizeof(ArchiveSpec), sizeof(ArchiveFlag)
SizeofReadableArchive == 24
SizeofArchiveSpec == 40
SizeofArchiveFlag == 16

\* byteCount += sizeof(ArchiveFlag); byteCount += pair.first.size() + 1; over the names
RECURSIVE FlagBytes(_)
FlagBytes(names) ==
    IF names = {} THEN 0
    ELSE LET name == CHOOSE n \in names : TRUE
         IN  SizeofArchiveFlag + Len(name) + 1 + FlagBytes(names \ {name})

\* the three sums of serialize over the first n materials
RECURSIVE FlagBytesOf(_, _)
FlagBytesOf(materials, n) ==
    IF n = 0 THEN 0
    ELSE FlagBytesOf(materials, n - 1) + FlagBytes(DOMAIN materials[n].flags)

RECURSIVE FlagCountOf(_, _)
FlagCountOf(materials, n) ==
    IF n = 0 THEN 0
    ELSE FlagCountOf(materials, n - 1) + Cardinality(DOMAIN materials[n].flags)

RECURSIVE PackageBytesOf(_, _)
PackageBytesOf(materials, n) ==
    IF n = 0 THEN 0
    ELSE PackageBytesOf(materials, n - 1) + Len(materials[n].package)

\* size_t flaglistOffset = byteCount, after the header and the specs
FlaglistOffset(materials) ==
    SizeofReadableArchive + Len(materials) * SizeofArchiveSpec

\* size_t filamatOffset = byteCount, after the flags and their names
FilamatOffset(materials) ==
    FlaglistOffset(materials) + FlagBytesOf(materials, Len(materials))

\* the size of outputBuffer
ByteCount(materials) ==
    FilamatOffset(materials) + PackageBytesOf(materials, Len(materials))

\* the ArchiveSpec pushed for material i, with the running offsets
SerializedSpec(materials, i) ==
    [shadingModel |-> materials[i].shadingModel,
     blendingMode |-> materials[i].blendingMode,
     flagsCount |-> Cardinality(DOMAIN materials[i].flags),
     flagsOffset |-> FlaglistOffset(materials)
                        + FlagCountOf(materials, i - 1) * SizeofArchiveFlag,
     packageByteCount |-> Len(materials[i].package),
     packageOffset |-> FilamatOffset(materials) + PackageBytesOf(materials, i - 1)]

\* flags is built with_capacity and never pushed to: flags.size()
SerializedFlagCount(materials) == 0

\* where writeCursor stands after the four memcpy: the header, the specs and
\* the flags advance it, the flag names do not
WriteCursor(materials) ==
    SizeofReadableArchive + SizeofArchiveSpec * Len(materials)
        + SizeofArchiveFlag * SerializedFlagCount(materials)

\* outputBuffer: its size, the header and the specs copied into it, and the
\* offset from which on no byte of it was written
Serialized(materials) ==
    [byteCount |-> ByteCount(materials),
     magic |-> MAGIC,
     version |-> VERSION,
     specsCount |-> Len(materials),
     specsOffset |-> SizeofReadableArchive,
     specs |-> [i \in 1..Len(materials) |-> SerializedSpec(materials, i)],
     written |-> WriteCursor(materials)]

\* assert_invariant(writeCursor - outputBuffer.data() == outputBuffer.size())
SerializeAssertion(materials) == WriteCursor(materials) = ByteCount(materials)

\* FixedCapacityVector<uint8_t> WritableArchive::serialize() const
Serialize ==
    /\ wpc = "building"
    /\ UNCHANGED <<ndebug, cacheVars, threadVars>>
    /\ IF ~SerializeAssertion(wMaterials) /\ ~ndebug
       THEN WriterAborted
       ELSE /\ outputBuffer' = <<Serialized(wMaterials)>>
            /\ wpc' = "serialized"
            /\ UNCHANGED <<wMaterials, mMaterialIndex, mLineNumber, syntaxError, linesFed,
                           replaced>>

----------------------------------------------------------------------------
(* Reading a serialized buffer back *)

\* what the bytes serialize never wrote may hold: zeroes, or all bits set
Fills == {0, 255}

\* the C string at offset 0 of a buffer of serialize on a little-endian
\* machine: the bytes of 'UBER', ended by the zero bytes of the version
NameAtOffsetZero == <<"R", "E", "B", "U">>

\* an ArchiveFlag read from bytes that all hold fill: zeroes are the name
\* offset 0 and the value UNSUPPORTED; set bits are a name offset far outside
\* the buffer and no enumerator
FlagRead(fill) ==
    IF fill = 0 THEN [name |-> NameAtOffsetZero, value |-> UNSUPPORTED]
    ELSE [name |-> <<>>, value |-> "INVALID"]

\* convertOffsetsToPointers on a buffer of serialize, and what the pointers
\* then show: the header and the specs are read from the bytes written, the
\* flags and packages from the bytes after them
ConvertOffsetsToPointers(buffer, fill) ==
    [magic |-> buffer.magic,
     version |-> buffer.version,
     specs |-> [i \in 1..buffer.specsCount |->
                   [shadingModel |-> buffer.specs[i].shadingModel,
                    blendingMode |-> buffer.specs[i].blendingMode,
                    flags |-> [j \in 1..buffer.specs[i].flagsCount |-> FlagRead(fill)],
                    package |-> [j \in 1..buffer.specs[i].packageByteCount |-> fill]]],
     offsetsInside |->
         /\ buffer.specsOffset + buffer.specsCount * SizeofArchiveSpec <= buffer.byteCount
         /\ \A i \in 1..buffer.specsCount :
                /\ buffer.specs[i].flagsOffset
                       + buffer.specs[i].flagsCount * SizeofArchiveFlag <= buffer.byteCount
                /\ buffer.specs[i].packageOffset
                       + buffer.specs[i].packageByteCount <= buffer.byteCount
                /\ buffer.specs[i].flagsCount > 0 => fill = 0]

\* load called with the buffer serialize returned
LoadSerialized ==
    /\ wpc = "serialized"
    /\ mArchive = <<>>
    /\ \E fill \in Fills : Load(ConvertOffsetsToPointers(outputBuffer[1], fill))

----------------------------------------------------------------------------
(* Specifications *)

\* ArchiveCache(filament::Engine& engine) : mEngine(engine) {}
Init ==
    /\ mArchive = <<>>
    /\ mMaterials = <<>>
    /\ pc = "alive"
    /\ built = <<>>
    /\ destroyed = <<>>
    /\ freed = FALSE
    /\ last = Call("none", NoRequirements, 0, 0)
    /\ ndebug = FALSE
    /\ wMaterials = <<>>
    /\ mMaterialIndex = -1
    /\ mLineNumber = 1
    /\ wpc = "none"
    /\ syntaxError = <<>>
    /\ outputBuffer = <<>>
    /\ linesFed = 0
    /\ replaced = ""
    /\ threads = [t \in Threads |-> Idle]
    /\ mutex = FALSE

\* load with any archive file; when load is about to fail its assertion the
\* file makes no difference, and one stands for all
LoadSome ==
    \E archiveData \in (IF mArchive = <<>> THEN ArchiveFiles
                        ELSE {CHOOSE a \in ArchiveFiles : TRUE}) :
        Load(archiveData)

GetSomeMaterial == \E meshRequirements \in Requirements : GetMaterial(meshRequirements)

Next ==
    \/ LoadSome
    \/ GetSomeMaterial
    \/ GetDefaultMaterial
    \/ DestroyMaterials
    \/ Destructor

\* the life cycle of one cache over the archive files
Spec == Init /\ [][Next]_vars

\* a cache that has just loaded a one-spec archive
InitMatch ==
    /\ mArchive \in {<<a>> : a \in MatcherArchives}
    /\ mMaterials = EmptySlots(1)
    /\ pc = "alive"
    /\ built = <<>>
    /\ destroyed = <<>>
    /\ freed = FALSE
    /\ last = Call("load", NoRequirements, 0, 0)
    /\ ndebug = FALSE
    /\ wMaterials = <<>>
    /\ mMaterialIndex = -1
    /\ mLineNumber = 1
    /\ wpc = "none"
    /\ syntaxError = <<>>
    /\ outputBuffer = <<>>
    /\ linesFed = 0
    /\ replaced = ""
    /\ threads = [t \in Threads |-> Idle]
    /\ mutex = FALSE

\* the matcher: lookups on a one-spec archive over every flag list
SpecMatch == InitMatch /\ [][Next]_vars

\* WritableArchive(size_t materialCount), in either build, beside a fresh cache
InitBuild ==
    /\ mArchive = <<>>
    /\ mMaterials = <<>>
    /\ pc = "alive"
    /\ built = <<>>
    /\ destroyed = <<>>
    /\ freed = FALSE
    /\ last = Call("none", NoRequirements, 0, 0)
    /\ ndebug \in BOOLEAN
    /\ wMaterials \in {[i \in 1..n |-> EmptyMaterial] : n \in 1..MaxMaterials}
    /\ mMaterialIndex = -1
    /\ mLineNumber = 1
    /\ wpc = "building"
    /\ syntaxError = <<>>
    /\ outputBuffer = <<>>
    /\ linesFed = 0
    /\ replaced = ""
    /\ threads = [t \in Threads |-> Idle]
    /\ mutex = FALSE

AddSomeMaterial ==
    \E name \in MaterialNames, package \in Packages : AddMaterial(name, package)

AddSomeSpecLine == \E line \in SpecLines : AddSpecLine(line)

NextBuild ==
    \/ AddSomeMaterial
    \/ AddSomeSpecLine
    \/ Serialize
    \/ LoadSerialized

\* building an archive, serializing it and loading the buffer
SpecBuild == InitBuild /\ [][NextBuild]_vars

\* the builder alone, in the build that evaluates assert_invariant
InitParse == InitBuild /\ ~ndebug

\* the parser never looks at the package: variants of an empty package
AddPackagelessMaterial == \E name \in MaterialNames : AddMaterial(name, <<>>)

NextParse ==
    \/ AddPackagelessMaterial
    \/ AddSomeSpecLine

\* feeding variants and spec lines to one WritableArchive
SpecParse == InitParse /\ [][NextParse]_vars

\* a cache that has loaded an archive, with or without the callers' mutex
InitThreads ==
    /\ mArchive \in {<<a>> : a \in ThreadArchives}
    /\ mMaterials = EmptySlots(Len(mArchive[1].specs))
    /\ pc = "alive"
    /\ built = <<>>
    /\ destroyed = <<>>
    /\ freed = FALSE
    /\ last = Call("load", NoRequirements, 0, 0)
    /\ ndebug = FALSE
    /\ wMaterials = <<>>
    /\ mMaterialIndex = -1
    /\ mLineNumber = 1
    /\ wpc = "none"
    /\ syntaxError = <<>>
    /\ outputBuffer = <<>>
    /\ linesFed = 0
    /\ replaced = ""
    /\ threads = [t \in Threads |-> Idle]
    /\ mutex \in BOOLEAN

EnterSomeGetMaterial ==
    \E t \in Threads, meshRequirements \in ThreadRequirements :
        EnterGetMaterial(t, meshRequirements)

BuildSomeMaterial == \E t \in Threads : BuildMaterial(t)

StoreSomeBuiltMaterial == \E t \in Threads : StoreBuiltMaterial(t)

ReturnSomeMaterial == \E t \in Threads : ReturnMaterial(t)

NextThreads ==
    \/ EnterSomeGetMaterial
    \/ BuildSomeMaterial
    \/ StoreSomeBuiltMaterial
    \/ ReturnSomeMaterial
    \/ DestroyMaterialsAfterLookups

\* lookups from several threads on one loaded cache
SpecThreads == InitThreads /\ [][NextThreads]_vars

----------------------------------------------------------------------------
(* Claims about ArchiveCache *)

Loaded == mArchive # <<>>

LookedUp == last.op = "getMaterial" /\ Loaded /\ mArchive[1].offsetsInside

\* how many times handle h was handed to Engine::destroy
TimesDestroyed(h) == Cardinality({k \in 1..Len(destroyed) : destroyed[k] = h})

\* C1: a lookup returns the handle of the lowest-index spec the matcher
\* accepts: the position it used is suitable and no earlier position is, no
\* suitable spec is passed over, and the handle returned is the one the slot
\* of that position holds, built for that position; when positions i < j are
\* both suitable the position used is never j.
C1_FirstMatchWins ==
    LookedUp =>
        LET specs == mArchive[1].specs
            k == last.index
        IN  /\ k # 0 => /\ k \in 1..Len(specs)
                        /\ specIsSuitable(specs[k], last.req)
            /\ \A i \in 1..Len(specs) :
                   specIsSuitable(specs[i], last.req) => (k # 0 /\ k <= i)
            /\ (k # 0 /\ pc = "alive") =>
                   /\ last.ret # 0
                   /\ last.ret = mMaterials[k]
                   /\ built[last.ret].index = k

C1_Witness ==
    /\ LookedUp
    /\ pc = "alive"
    /\ Len(mArchive[1].specs) = 2
    /\ specIsSuitable(mArchive[1].specs[1], last.req)
    /\ specIsSuitable(mArchive[1].specs[2], last.req)
    /\ last.index = 1
    /\ mMaterials[2] # 0

\* C2 (as stated): a spec is accepted only if every feature the requirement
\* maps to true is the exact name of one of the spec's flags whose support is
\* not Unsupported.
C2_ExactNameNeeded ==
    (LookedUp /\ last.index # 0) =>
        LET flags == mArchive[1].specs[last.index].flags
        IN  \A name \in DOMAIN last.req.features :
                last.req.features[name] =>
                    \E j \in 1..Len(flags) :
                        flags[j].name = name /\ flags[j].value # UNSUPPORTED

\* the requirement lacks the name of flag j of the spec, or maps it to false
NotAsked(flag, req) ==
    flag.name \notin DOMAIN req.features \/ ~req.features[flag.name]

\* C3: a spec with a Required flag whose name the requirement lacks or maps
\* to false is never the spec a lookup uses, and the handle returned is never
\* one built for it.
C3_RequiredFlagEnforced ==
    LookedUp =>
        \A i \in 1..Len(mArchive[1].specs) :
            LET spec == mArchive[1].specs[i]
            IN  (\E j \in 1..Len(spec.flags) :
                    spec.flags[j].value = REQUIRED /\ NotAsked(spec.flags[j], last.req))
                => /\ last.index # i
                   /\ (pc = "alive" /\ last.ret # 0) => built[last.ret].index # i

C3_Witness ==
    /\ LookedUp
    /\ last.index = 0
    /\ LET spec == mArchive[1].specs[1]
       IN  /\ spec.shadingModel = last.req.shadingModel
           /\ spec.blendingMode = last.req.blendingMode
           /\ MeshFeaturesFound(spec, last.req)
           /\ \E j \in 1..Len(spec.flags) :
                  spec.flags[j].value = REQUIRED /\ NotAsked(spec.flags[j], last.req)

\* the spec with flag f put at position p of its flag list
WithFlagAt(spec, p, f) ==
    [spec EXCEPT !.flags =
        SubSeq(spec.flags, 1, p - 1) \o <<f>> \o SubSeq(spec.flags, p, Len(spec.flags))]

\* C4 (as stated): for the requirement of a lookup and every spec of the
\* archive, a further flag (a name the spec does not have yet, at any place
\* of the list) with support Optional never makes a suitable spec
\* unsuitable, and one with support Unsupported does so only when the
\* requirement maps that flag's name to true.
C4_OptionalUnsupportedTransparent ==
    LookedUp =>
        \A i \in 1..Len(mArchive[1].specs) :
            LET spec == mArchive[1].specs[i]
            IN  \A f \in ArchiveFlag : \A p \in 1..(Len(spec.flags) + 1) :
                    (/\ \A j \in 1..Len(spec.flags) : spec.flags[j].name # f.name
                     /\ specIsSuitable(spec, last.req)
                     /\ ~specIsSuitable(WithFlagAt(spec, p, f), last.req))
                    => /\ f.value # OPTIONAL
                       /\ f.value = UNSUPPORTED =>
                              /\ f.name \in DOMAIN last.req.features
                              /\ last.req.features[f.name]

\* what a getMaterial step may do to the cache, from its state before to its
\* state after
C5_Lookup(before, after) ==
    /\ \A i \in 1..Len(before.mMaterials) :
           before.mMaterials[i] # 0 =>
               /\ i \in 1..Len(after.mMaterials)
               /\ after.mMaterials[i] = before.mMaterials[i]
               /\ {h \in 1..Len(after.built) : after.built[h].index = i}
                      = {h \in 1..Len(before.built) : before.built[h].index = i}
               /\ (after.last.index = i /\ after.pc = "alive")
                      => after.last.ret = before.mMaterials[i]
    /\ (before.last.op = "getMaterial" /\ after.last.req = before.last.req
            /\ after.pc = "alive")
           => after.last.ret = before.last.ret
    /\ after.mArchive = before.mArchive

CacheState ==
    [mArchive |-> mArchive, mMaterials |-> mMaterials, pc |-> pc,
     built |-> built, last |-> last]

\* C5: the material compiler runs at most once per spec position; a lookup
\* leaves every slot that holds a handle as it is, builds nothing more for
\* it and, when it is the slot the lookup uses, returns that very handle;
\* two lookups in a row with equal requirements return the same handle; and
\* the loaded archive, which fixes the position a requirement selects, does
\* not change across a lookup.
C5_LookupIdempotent ==
    /\ [](\A h1, h2 \in 1..Len(built) : built[h1].index = built[h2].index => h1 = h2)
    /\ [][last'.op = "getMaterial" => C5_Lookup(CacheState, CacheState')]_vars

\* a lookup that returned a handle built before a later one: a slot reused
C5_Witness ==
    /\ LookedUp
    /\ pc = "alive"
    /\ last.ret # 0
    /\ last.ret < Len(built)

\* C7 (as stated): no archive is left loaded, and no slot allocated, from a
\* buffer with a wrong magic or version or with an offset that resolves
\* outside the buffer.
C7_LoadRejectsBadBuffers ==
    Loaded =>
        /\ mArchive[1].magic = MAGIC
        /\ mArchive[1].version = VERSION
        /\ mArchive[1].offsetsInside

\* C8 (as stated): on a loaded archive with at least one spec,
\* getDefaultMaterial returns a handle, the one slot 0 holds, built from the
\* package of spec 0.
C8_DefaultIsMaterialized ==
    (last.op = "getDefaultMaterial" /\ pc = "alive" /\ Loaded
        /\ Len(mArchive[1].specs) >= 1)
    => /\ last.ret # 0
       /\ last.ret = mMaterials[1]
       /\ built[last.ret] = [index |-> 1, package |-> mArchive[1].specs[1].package]

\* C9: no handle is handed to Engine::destroy twice, a handle not handed to
\* it yet is still held by a slot (none is lost), a handle handed to it is
\* held by no slot, and right after destroyMaterials every handle built so
\* far has been handed to it exactly once and no slot is left.
C9_ReleaseAllExactlyOnce ==
    /\ \A h \in 1..Len(built) :
           /\ TimesDestroyed(h) <= 1
           /\ TimesDestroyed(h) = 0 => \E i \in 1..Len(mMaterials) : mMaterials[i] = h
           /\ TimesDestroyed(h) = 1 => \A i \in 1..Len(mMaterials) : mMaterials[i] # h
    /\ last.op = "destroyMaterials" =>
           /\ Len(mMaterials) = 0
           /\ \A h \in 1..Len(built) : TimesDestroyed(h) = 1

C9_Witness ==
    /\ last.op = "destroyMaterials"
    /\ Len(built) = 2

\* C10: when the cache is destructed while a built handle has not been
\* handed to Engine::destroy, the destructor's assertion fails and the buffer
\* is not freed; when it is destructed right after destroyMaterials the
\* assertion passes and the buffer is freed.
C10_TwoPhaseTeardown ==
    [][(last'.op = "~ArchiveCache" /\ last.op # "~ArchiveCache") =>
          /\ (\E h \in 1..Len(built) : TimesDestroyed(h) = 0)
                 => (pc' = "aborted" /\ ~freed')
          /\ last.op = "destroyMaterials"
                 => (pc' = "destructed" /\ freed')]_vars

\* destructed after handles were built and released
C10_Witness ==
    /\ last.op = "~ArchiveCache"
    /\ pc = "destructed"
    /\ freed
    /\ Len(built) >= 1

\* C11: load on a cache that already holds an archive fails its assertion in
\* every state, also after destroyMaterials, and leaves the archive held and
\* the slots of the handles as they were.
C11_LoadTwiceFails ==
    [][(last'.op = "load" /\ pc = "alive" /\ Loaded) =>
          /\ pc' = "aborted"
          /\ mArchive' = mArchive
          /\ mMaterials' = mMaterials]_vars

\* a second load that failed after handles were built and released
C11_Witness ==
    /\ last.op = "load"
    /\ pc = "aborted"
    /\ Loaded
    /\ Len(destroyed) >= 1
    /\ mMaterials = <<>>

\* C12 (as stated): getMaterial on a cache on which load was never called
\* fails an assertion; it does not read through the absent archive.
C12_LookupBeforeLoadFails ==
    (last.op = "getMaterial" /\ ~Loaded) => pc = "aborted"

\* the requirement of the claims, spelled out on the fields of one spec
Satisfies(spec, req) ==
    /\ spec.blendingMode = req.blendingMode
    /\ spec.shadingModel = req.shadingModel
    /\ MeshFeaturesFound(spec, req)
    /\ RequiredFlagsPresent(spec, req)

\* C13: a lookup on a loaded archive returns nullptr exactly when no spec
\* satisfies the requirement; it then builds no material and changes no
\* slot; a lookup that finds a spec builds at most one material and changes
\* no slot but that of the first satisfying spec. (The value returned is
\* compared on the lookups whose behaviour is defined.)
C13_LookupFrame ==
    [][(last'.op = "getMaterial" /\ pc = "alive" /\ Loaded /\ mArchive[1].offsetsInside) =>
          LET specs == mArchive[1].specs
              req == last'.req
              none == \A i \in 1..Len(specs) : ~Satisfies(specs[i], req)
          IN  /\ mArchive' = mArchive
              /\ pc' = "alive" => (last'.ret = 0 <=> none)
              /\ none => /\ pc' = "alive"
                         /\ last'.ret = 0
                         /\ built' = built
                         /\ mMaterials' = mMaterials
              /\ Len(built') <= Len(built) + 1
              /\ Len(mMaterials') = Len(mMaterials)
              /\ \A j \in 1..Len(mMaterials) :
                     mMaterials'[j] # mMaterials[j] =>
                         /\ Satisfies(specs[j], req)
                         /\ \A k \in 1..(j - 1) : ~Satisfies(specs[k], req)]_vars

\* a lookup that found no spec, on an archive of two specs one of whose
\* slots holds a material
C13_Witness ==
    /\ LookedUp
    /\ pc = "alive"
    /\ last.ret = 0
    /\ Len(mMaterials) = 2
    /\ \E j \in 1..2 : mMaterials[j] # 0
    /\ \A i \in 1..2 : ~Satisfies(mArchive[1].specs[i], last.req)

\* C19 (as stated): from load on, through getMaterial, getDefaultMaterial
\* and destroyMaterials, the cache has one slot per spec of its archive, and
\* the spec a lookup matches has a slot, also after destroyMaterials.
C19_OneSlotPerSpec ==
    /\ (Loaded /\ pc = "alive") => Len(mMaterials) = Len(mArchive[1].specs)
    /\ LookedUp => last.index <= Len(mMaterials)

\* two handles built from the package of one spec
SameSpecTwice(h1, h2) == h1 # h2 /\ built[h1].index = built[h2].index

\* C21: getMaterial takes no lock. Without the callers' mutex two lookups
\* that match one spec can both find its slot empty and both build it; the
\* slot keeps one of the two handles and the other is never handed to
\* Engine::destroy. Under the callers' mutex no spec is built twice.
C21_UnlockedLookupsRace ==
    /\ mutex => \A h1, h2 \in 1..Len(built) : ~SameSpecTwice(h1, h2)
    /\ \A h1, h2 \in 1..Len(built) :
           SameSpecTwice(h1, h2) => (TimesDestroyed(h1) = 0 \/ TimesDestroyed(h2) = 0)

\* after an unlocked race and destroyMaterials: one spec was built twice, one
\* of its handles was destroyed and the other was not
C21_Witness ==
    /\ ~mutex
    /\ last.op = "destroyMaterials"
    /\ \E h1, h2 \in 1..Len(built) :
           /\ SameSpecTwice(h1, h2)
           /\ TimesDestroyed(h1) = 0
           /\ TimesDestroyed(h2) = 1

----------------------------------------------------------------------------
(* Claims about WritableArchive *)

\* the name/support pairs of a loaded spec and of a variant of the builder
LoadedFlagPairs(spec) == {<<spec.flags[j].name, spec.flags[j].value>> : j \in 1..Len(spec.flags)}

BuiltFlagPairs(material) == {<<n, material.flags[n]>> : n \in DOMAIN material.flags}

\* C6 (as stated): once every declared variant was added and the buffer of
\* serialize was loaded, the loaded archive has as many specs as the builder
\* has variants and, position by position, the same shading model, blending
\* mode, flag name/support pairs and package bytes.
C6_RoundTrip ==
    (wpc = "serialized" /\ last.op = "load" /\ Loaded
        /\ mMaterialIndex + 1 = Len(wMaterials))
    => /\ Len(mArchive[1].specs) = Len(wMaterials)
       /\ Len(mMaterials) = Len(wMaterials)
       /\ \A i \in 1..Len(wMaterials) :
              /\ mArchive[1].specs[i].shadingModel = wMaterials[i].shadingModel
              /\ mArchive[1].specs[i].blendingMode = wMaterials[i].blendingMode
              /\ Len(mArchive[1].specs[i].flags) = Cardinality(DOMAIN wMaterials[i].flags)
              /\ LoadedFlagPairs(mArchive[1].specs[i]) = BuiltFlagPairs(wMaterials[i])
              /\ mArchive[1].specs[i].package = wMaterials[i].package


\* the texts of a keyword table
Texts(keywords) == {keywords[k].txt : k \in 1..Len(keywords)}

\* head ws? "=" ws? value, with nothing after the value: line[1..n] is the
\* head, line[e] the equal sign, line[v..] the value
DerivesStmt(line, IsHead(_), values) ==
    \E n \in 1..Len(line), e \in 1..Len(line), v \in 1..(Len(line) + 1) :
        /\ n < e
        /\ e < v
        /\ IsHead(SubSeq(line, 1, n))
        /\ \A k \in (n + 1)..(e - 1) : line[k] \in Whitespaces
        /\ line[e] = "="
        /\ \A k \in (e + 1)..(v - 1) : line[k] \in Whitespaces
        /\ SubSeq(line, v, Len(line)) \in values

\* identifier := [A-Za-z0-9_]+
IsIdentifier(head) == Len(head) >= 1 /\ \A k \in 1..Len(head) : head[k] \in AlphaNumerics

\* line := "" | "#" comment | blendingStmt | shadingStmt | flagStmt
DerivesFromGrammar(line) ==
    \/ line = <<>>
    \/ (Len(line) >= 1 /\ line[1] = "#")
    \/ DerivesStmt(line, LAMBDA head : head = KeywordBlendingMode, Texts(BlendingModeKeywords))
    \/ DerivesStmt(line, LAMBDA head : head = KeywordShadingModel, Texts(ShadingModelKeywords))
    \/ DerivesStmt(line, IsIdentifier, Texts(ArchiveFeatureKeywords))

\* C14 (as stated): addSpecLine accepts a line exactly when the line derives
\* from the grammar; every other line is a syntax error that ends the build,
\* after which no buffer is ever produced.
C14_AcceptsExactlyGrammar ==
    /\ [](wpc = "exited" => (syntaxError # <<>> /\ outputBuffer = <<>>))
    /\ [][\A line \in SpecLines :
             (mMaterialIndex > -1 /\ AddSpecLine(line)) =>
                 /\ wpc' = "building" <=> DerivesFromGrammar(line)
                 /\ wpc' \in {"building", "exited"}]_vars

\* C15: the line number of a syntax error is the 1-based position of the
\* failing line among the lines fed since the last addMaterial, blank and
\* comment lines counted; addMaterial sets the counter to 1 and every
\* accepted line, blank and comment lines too, adds exactly 1 to it.
C15_LineNumberIsPosition ==
    /\ [](syntaxError # <<>> => syntaxError[1].line = linesFed)
    /\ []((wpc = "building" /\ mMaterialIndex > -1) => mLineNumber = linesFed + 1)
    /\ [][mMaterialIndex' # mMaterialIndex => mLineNumber' = 1]_vars
    /\ [][(linesFed' = linesFed + 1 /\ wpc' = "building") =>
              mLineNumber' = mLineNumber + 1]_vars

\* a syntax error on the third line of the second variant, after lines were
\* fed to the first
C15_Witness ==
    /\ syntaxError # <<>>
    /\ syntaxError[1].line = 3
    /\ mMaterialIndex = 1
    /\ \E n \in DOMAIN wMaterials[1].flags : TRUE

\* the keyword of table keywords that stands at position c of the line, as a
\* set: empty when none does
KeywordsAt(keywords, line, c) == {t \in Texts(keywords) : KeywordTest(t, line, c)}

\* the 1-based position of the first character of a line that the grammar
\* does not expect: the character where an identifier, the equal sign or a
\* value keyword should start and does not, or the one after the value
FirstUnexpected(line) ==
    LET n == ReadWhile(AlphaNumerics, line, 1)
        head == SubSeq(line, 1, n)
        values == IF head = KeywordBlendingMode THEN BlendingModeKeywords
                  ELSE IF head = KeywordShadingModel THEN ShadingModelKeywords
                  ELSE ArchiveFeatureKeywords
        e == n + 1 + ReadWhile(Whitespaces, line, n + 1)
        v == e + 1 + ReadWhile(Whitespaces, line, e + 1)
        found == KeywordsAt(values, line, v)
    IN  IF n = 0 THEN 1
        ELSE IF CharAt(line, e) # "=" THEN e
        ELSE IF found = {} THEN v
        ELSE v + Len(CHOOSE t \in found : TRUE)

\* C16 (as stated): the column of a syntax error is the 1-based position of
\* the character at which the line stops following the grammar, whatever the
\* violation: missing identifier, missing equal sign, unknown value keyword
\* or trailing character.
C16_ColumnIsFailingCharacter ==
    [][\A line \in SpecLines :
          (mMaterialIndex > -1 /\ ~DerivesFromGrammar(line) /\ AddSpecLine(line)) =>
              (wpc' = "exited" /\ syntaxError'[1].column = FirstUnexpected(line))]_vars

\* what a flag statement says: the name before the equal sign and the
\* support its value keyword stands for
NameOf(line) == SubSeq(line, 1, ReadWhile(AlphaNumerics, line, 1))

IsFlagStmt(line) ==
    /\ NameOf(line) # <<>>
    /\ NameOf(line) # KeywordBlendingMode
    /\ NameOf(line) # KeywordShadingModel

SupportOf(line) ==
    LET k == CHOOSE k \in 1..Len(ArchiveFeatureKeywords) :
                 /\ Len(ArchiveFeatureKeywords[k].txt) <= Len(line)
                 /\ SubSeq(line, Len(line) - Len(ArchiveFeatureKeywords[k].txt) + 1, Len(line))
                        = ArchiveFeatureKeywords[k].txt
    IN  ArchiveFeatureKeywords[k].value

\* C17: an accepted flag statement leaves the current variant's flag map with
\* the statement's support under the statement's name, replacing what the
\* name held before, and with every other name as it was; it changes neither
\* the variant's shading model or blending mode nor any other variant; and
\* no other accepted line changes a flag map.
C17_LastWriteWins ==
    [][(linesFed' = linesFed + 1 /\ wpc' = "building") =>
          LET m == mMaterialIndex + 1
              before == wMaterials[m]
              after == wMaterials'[m]
          IN  /\ Len(wMaterials') = Len(wMaterials)
              /\ \A o \in 1..Len(wMaterials) : o # m => wMaterials'[o] = wMaterials[o]
              /\ \A line \in SpecLines :
                     AddSpecLine(line) =>
                         IF IsFlagStmt(line)
                         THEN /\ DOMAIN after.flags = DOMAIN before.flags \cup {NameOf(line)}
                              /\ after.flags[NameOf(line)] = SupportOf(line)
                              /\ \A n \in DOMAIN before.flags :
                                     n # NameOf(line) => after.flags[n] = before.flags[n]
                              /\ after.shadingModel = before.shadingModel
                              /\ after.blendingMode = before.blendingMode
                         ELSE after.flags = before.flags]_vars

\* the second variant after its flag a went from optional to required, beside
\* a first variant that holds other flags
C17_Witness ==
    /\ wpc = "building"
    /\ mMaterialIndex = 1
    /\ replaced = OPTIONAL
    /\ wMaterials[2].flags = (<<"a">> :> REQUIRED)
    /\ wMaterials[1].flags = (<<"a", "b">> :> UNSUPPORTED)

\* sums over the first n specs of a serialized buffer, and over the flag
\* names of the variants it was serialized from
RECURSIVE FlagArrayBytesBefore(_, _)
FlagArrayBytesBefore(specs, i) ==
    IF i <= 1 THEN 0
    ELSE FlagArrayBytesBefore(specs, i - 1) + SizeofArchiveFlag * specs[i - 1].flagsCount

RECURSIVE PackageBytesBefore(_, _)
PackageBytesBefore(specs, i) ==
    IF i <= 1 THEN 0
    ELSE PackageBytesBefore(specs, i - 1) + specs[i - 1].packageByteCount

RECURSIVE NameBytes(_)
NameBytes(names) ==
    IF names = {} THEN 0
    ELSE LET name == CHOOSE n \in names : TRUE
         IN  Len(name) + 1 + NameBytes(names \ {name})

RECURSIVE NameBytesBefore(_, _)
NameBytesBefore(materials, i) ==
    IF i <= 1 THEN 0
    ELSE NameBytesBefore(materials, i - 1) + NameBytes(DOMAIN materials[i - 1].flags)

\* the offsets of a serialized buffer follow the running cursor over header,
\* specs, flag arrays, flag names and packages, and every region lies inside
\* the buffer
OffsetsFollowCursor(buffer, materials) ==
    LET n == buffer.specsCount
        specs == buffer.specs
        specsEnd == buffer.specsOffset + SizeofArchiveSpec * n
        flagsEnd == specsEnd + FlagArrayBytesBefore(specs, n + 1)
        namesEnd == flagsEnd + NameBytesBefore(materials, n + 1)
    IN  /\ buffer.specsOffset = SizeofReadableArchive
        /\ \A i \in 1..n :
               /\ specs[i].flagsOffset = specsEnd + FlagArrayBytesBefore(specs, i)
               /\ specs[i].packageOffset = namesEnd + PackageBytesBefore(specs, i)
               /\ specs[i].flagsOffset + SizeofArchiveFlag * specs[i].flagsCount
                      <= buffer.byteCount
               /\ specs[i].packageOffset + specs[i].packageByteCount <= buffer.byteCount
        /\ namesEnd + PackageBytesBefore(specs, n + 1) = buffer.byteCount

\* the regions serialize laid out are in the buffer: no flag array and no
\* package of a spec reaches into the bytes serialize left unwritten
RegionsAppear(buffer) ==
    \A i \in 1..buffer.specsCount :
        /\ buffer.specs[i].flagsCount > 0 =>
               buffer.specs[i].flagsOffset + SizeofArchiveFlag * buffer.specs[i].flagsCount
                   <= buffer.written
        /\ buffer.specs[i].packageByteCount > 0 =>
               buffer.specs[i].packageOffset + buffer.specs[i].packageByteCount
                   <= buffer.written

\* C18 (as stated): the buffer serialize returns holds, in this order, the
\* header, the specs, the flag arrays, the flag names and the packages; each
\* offset field is the running byte cursor at the start of its region, and
\* each offset plus its length lies inside the buffer.
C18_SerializedLayout ==
    wpc = "serialized" =>
        /\ OffsetsFollowCursor(outputBuffer[1], wMaterials)
        /\ RegionsAppear(outputBuffer[1])

\* C20 (as stated): in every state of the builder the final assertion of
\* serialize holds: the write cursor, after the header, the specs, the flags
\* and the flag names, stands at the size of the output buffer, also when
\* variants have flags and packages that are not empty.
C20_SerializeAssertionHolds ==
    wpc = "building" => WriteCursor(wMaterials) = ByteCount(wMaterials)

\* C22 (as stated): a WritableArchive declared with N variants stores every
\* variant at an index in 0..N-1 whatever the sequence of addMaterial calls,
\* addSpecLine addresses such an index only, no call accesses the array
\* outside its declared size, and addSpecLine before the first addMaterial
\* fails its assertion.
C22_WithinDeclaredCapacity ==
    /\ wpc # "undefined"
    /\ mMaterialIndex \in -1..(Len(wMaterials) - 1)
    /\ linesFed > 0 => mMaterialIndex \in 0..(Len(wMaterials) - 1)
    /\ wpc = "aborted" => mMaterialIndex = -1
====
